---- MODULE Spec2Model ----
(***************************************************************************)
(* A model of configloader: ConfigLoader (core.py), its sources           *)
(* (sources.py), the three parsers (parsers/*.py) and the exception        *)
(* hierarchy (exceptions.py), together with the world the loader reads:    *)
(* one configuration file, the process environment and the test suite's    *)
(* custom sources.                                                         *)
(*                                                                         *)
(* Python strings whose characters matter (file names, environment         *)
(* variable names, prefixes, configuration keys) are tuples of one-letter  *)
(* strings, so that suffix, lstrip, lower, startswith and slicing are      *)
(* computed and not assumed.  A configuration value is a record            *)
(* [t, s, m]: t is the Python type, s the scalar's text, m the entries of  *)
(* a nested mapping.                                                       *)
(***************************************************************************)
EXTENDS Integers, Sequences, FiniteSets, TLC

\* longest list of custom sources handed to a constructor
MaxCustom == 2

----------------------------------------------------------------------------
(* Strings *)

UpperChars == <<"A","B","C","D","E","F","G","H","I","J","K","L","M",
                "N","O","P","Q","R","S","T","U","V","W","X","Y","Z">>
LowerChars == <<"a","b","c","d","e","f","g","h","i","j","k","l","m",
                "n","o","p","q","r","s","t","u","v","w","x","y","z">>

\* str.lower() on one character
LowerChar(c) ==
  IF \E i \in 1..Len(UpperChars) : UpperChars[i] = c
  THEN LowerChars[CHOOSE i \in 1..Len(UpperChars) : UpperChars[i] = c]
  ELSE c

\* str.lower()
lower(s) == [i \in 1..Len(s) |-> LowerChar(s[i])]

\* str.startswith(p)
startswith(s, p) == Len(p) <= Len(s) /\ SubSeq(s, 1, Len(p)) = p

\* s[n:]
slice_from(s, n) == SubSeq(s, n + 1, Len(s))

\* str.lstrip(".")
RECURSIVE lstrip_dot(_)
lstrip_dot(s) ==
  IF Len(s) > 0 /\ s[1] = "." THEN lstrip_dot(Tail(s)) ELSE s

\* pathlib's PurePath.suffix of a file name: from the last dot on, unless
\* that dot starts or ends the name
suffix(name) ==
  LET dots == {i \in 1..Len(name) : name[i] = "."}
  IN IF dots = {} THEN <<>>
     ELSE LET i == CHOOSE d \in dots : \A e \in dots : e <= d
          IN IF 1 < i /\ i < Len(name) THEN SubSeq(name, i, Len(name))
             ELSE <<>>

----------------------------------------------------------------------------
(* Values and mappings *)

Str(x)    == [t |-> "str",  s |-> x, m |-> <<>>]
Bool(x)   == [t |-> "bool", s |-> x, m |-> <<>>]
IntV(x)    == [t |-> "int",  s |-> x, m |-> <<>>]
Nested(f) == [t |-> "map",  s |-> "", m |-> f]
\* Python's None as an argument value (argparse's "not supplied")
NoneValue == [t |-> "None", s |-> "", m |-> <<>>]

EmptyMap == <<>>

kName     == <<"n","a","m","e">>
kVersion  == <<"v","e","r","s","i","o","n">>
kDebug    == <<"d","e","b","u","g">>
kHost     == <<"h","o","s","t">>
kPort     == <<"p","o","r","t">>

\* a deep merge: nested mappings are combined entry by entry
dict_update_deep(a, b) ==
  [k \in (DOMAIN a) \cup (DOMAIN b) |->
     IF k \in DOMAIN b
     THEN IF k \in DOMAIN a /\ a[k].t = "map" /\ b[k].t = "map"
          THEN [t |-> "map", s |-> "",
                m |-> [h \in (DOMAIN a[k].m) \cup (DOMAIN b[k].m) |->
                         IF h \in DOMAIN b[k].m THEN b[k].m[h] ELSE a[k].m[h]]]
          ELSE b[k]
     ELSE a[k]]

\* dict.update: every key of b is set in a, replacing what was there
dict_update(a, b) ==
  [k \in (DOMAIN a) \cup (DOMAIN b) |-> IF k \in DOMAIN b THEN b[k] ELSE a[k]]

----------------------------------------------------------------------------
(* Exceptions *)

\* the base class of each exception class
BaseOf ==
  [ ConfigLoaderError     |-> "Exception",
    ConfigValidationError |-> "ConfigLoaderError",
    ConfigSourceError     |-> "ConfigLoaderError",
    ConfigFileError       |-> "ConfigSourceError",
    ConfigParserError     |-> "ConfigLoaderError",
    ConfigMergeError      |-> "ConfigLoaderError",
    FileNotFoundError     |-> "Exception",
    ValueError            |-> "Exception",
    Exception             |-> "Exception" ]

\* issubclass(c, d)
RECURSIVE issubclass(_, _)
issubclass(c, d) ==
  IF c = d THEN TRUE
  ELSE IF c \notin DOMAIN BaseOf \/ BaseOf[c] = c THEN FALSE
  ELSE issubclass(BaseOf[c], d)

----------------------------------------------------------------------------
(* The world the loader reads *)

Loaders == {"A"}

\* file names a loader is constructed for
FileNames ==
  { <<"c",".","t","o","m","l">>,
    <<"c",".","y","a","m","l">>,
    <<"c",".","Y","M","L">>,
    <<"c",".","J","s","o","n">>,
    <<"c",".","x","y","z">>,
    <<"c","f","g">> }

kDatabase == <<"d","a","t","a","b","a","s","e">>

\* file names whose extension is none of toml, yaml, yml, json in any case
UnsupportedNames == {<<"c",".","x","y","z">>, <<"c","f","g">>}

\* what a well-formed configuration file may hold
FileFull ==
  (kName :> Str("file_config")) @@ (kVersion :> Str("1.0.0"))
    @@ (kDatabase :> Nested((kHost :> "localhost") @@ (kPort :> "5432")))

\* the text of a file: whether it is well-formed in its format, what its
\* top-level value is, and the entries when that is a mapping.  An entry is
\* the token written for the key: [t, s, m] with t the kind of token ("str"
\* a quoted string, "int" a number, "bool" a boolean literal, "None" a null
\* literal, "plain" an unquoted YAML scalar, "map" a nested mapping) and s
\* its characters
Plain(x)   == [t |-> "plain", s |-> x, m |-> <<>>]
TextOf(f)  == [syntax |-> "ok",  root |-> "mapping", map |-> f]
BadText    == [syntax |-> "bad", root |-> "mapping", map |-> EmptyMap]
ListText   == [syntax |-> "ok",  root |-> "list",    map |-> EmptyMap]
FileTexts  == {TextOf(FileFull), TextOf(EmptyMap), BadText, ListText}
NoFile     == [exists |-> FALSE, text |-> TextOf(EmptyMap)]
FileStates == {NoFile} \cup {[exists |-> TRUE, text |-> x] : x \in FileTexts}

\* the process environment: the items of os.environ in iteration order,
\* each a <<name, raw string value>> pair, no name twice
APP_DEBUG == <<"A","P","P","_","D","E","B","U","G">>
HOME      == <<"H","O","M","E">>
EnvNames  == {APP_DEBUG, HOME}
EnvValues == {"true"}
Environs  ==
  {q \in UNION {[1..n -> EnvNames \X EnvValues] : n \in 0..Cardinality(EnvNames)} :
     \A i, j \in 1..Len(q) : i < j =>
        (q[i][1] = APP_DEBUG /\ q[j][1] = HOME)}

\* env_prefix: None, "" or "APP_"
NoPrefix  == [isNone |-> TRUE,  s |-> <<>>]
Prefix(p) == [isNone |-> FALSE, s |-> p]
Prefixes  == {NoPrefix, Prefix(<<>>), Prefix(<<"A","P","P","_">>)}

\* cli_args: None or an argparse Namespace (name -> value, None when the
\* argument was not supplied)
NoArgs        == [isNone |-> TRUE, ns |-> EmptyMap]
Namespace(f)  == [isNone |-> FALSE, ns |-> f]
CliArgs       ==
  {NoArgs, Namespace((kDebug :> Bool("False")) @@ (kVersion :> NoneValue))}

\* the test suite's custom sources (test_unit_core.py)
CustomClasses == {"CustomTestSource", "FailingSource", "MutableTestSource"}
CustomTestConfig ==
  (kName :> Str("test_app")) @@ (kVersion :> Str("1.0.0"))
    @@ (kDebug :> Bool("True"))
MutableInitial ==
  (kName :> Str("mutable_app")) @@ (kVersion :> Str("1.0.0"))
    @@ (kDebug :> Bool("True"))
MutableUpdated ==
  (kName :> Str("updated_app")) @@ (kVersion :> Str("2.0.0"))
    @@ (kDebug :> Bool("False")) @@ (kDatabase :> Nested((kHost :> "remote")))
MutableConfigs == {MutableInitial, MutableUpdated}

\* lists of distinct custom sources, at most MaxCustom long
CustomLists ==
  UNION {{q \in [1..n -> CustomClasses] : \A i, j \in 1..n : q[i] = q[j] => i = j}
         : n \in 0..MaxCustom}

VARIABLES
  config_file_name,  \* the file name every loader is constructed for
  file,              \* the file at that path: [exists, text]
  environ,           \* os.environ
  mutable_config,    \* MutableTestSource.config
  loader,            \* the ConfigLoader instances
  first,             \* history: each loader's first successful result
  past,              \* history: did a load fail, did the file exist at __init__
  last,              \* the latest operation and what its caller observed
  callers            \* threads inside load_config: [pc, config, ...]

vars == <<config_file_name, file, environ, mutable_config, loader, first, past,
          last, callers>>
world == <<config_file_name, file, environ, mutable_config>>

----------------------------------------------------------------------------
(* parsers/*.py *)

\* what a parser's load() hands to its caller
Returned(f) == [raised |-> "none", value |-> f, opened |-> FALSE]
Raised(e)   == [raised |-> e, value |-> EmptyMap, opened |-> FALSE]
\* the same outcome, reached after opening the file
Opened(r)   == [r EXCEPT !.opened = TRUE]

\* the decimal integers written in the files of this model
IntLexemes == {"0", "5432"}
\* what YAML 1.1 reads as a boolean or as null when it is not quoted
YamlTrue  == {"true", "True", "TRUE", "yes", "Yes", "YES", "on", "On", "ON"}
YamlFalse == {"false", "False", "FALSE", "no", "No", "NO", "off", "Off", "OFF"}
YamlNull  == {"", "~", "null", "Null", "NULL"}

\* json.load on one token: JSON has no unquoted strings, and its boolean
\* literals are true and false
json_lexical(tok) ==
  /\ tok.t # "plain"
  /\ tok.t = "bool" => tok.s \in {"true", "false"}

\* a decoder that hands back the token as it stands
json_value_raw(tok) == tok

\* the Python value json.load builds from a token
json_value(tok) ==
  CASE tok.t = "str"  -> Str(tok.s)
    [] tok.t = "int"  -> IntV(tok.s)
    [] tok.t = "bool" -> Bool(IF tok.s = "true" THEN "True" ELSE "False")
    [] tok.t = "map"  -> Nested(tok.m)
    [] OTHER          -> NoneValue

\* the implicit resolution of an unquoted YAML scalar
yaml_resolve(x) ==
  IF x \in YamlTrue THEN Bool("True")
  ELSE IF x \in YamlFalse THEN Bool("False")
  ELSE IF x \in IntLexemes THEN IntV(x)
  ELSE IF x \in YamlNull THEN NoneValue
  ELSE Str(x)

\* yaml.safe_load accepts every token of this model
yaml_lexical(tok) == TRUE

\* the Python value yaml.safe_load builds from a token: a quoted scalar is
\* a string, any other scalar is resolved by its characters
yaml_value(tok) ==
  CASE tok.t = "str" -> Str(tok.s)
    [] tok.t = "map" -> Nested(tok.m)
    [] OTHER         -> yaml_resolve(tok.s)

\* toml.load on one token: no unquoted strings, no null, true and false
toml_lexical(tok) ==
  /\ tok.t \notin {"plain", "None"}
  /\ tok.t = "bool" => tok.s \in {"true", "false"}

\* the Python value toml.load builds from a token
toml_value(tok) ==
  CASE tok.t = "str"  -> Str(tok.s)
    [] tok.t = "int"  -> IntV(tok.s)
    [] tok.t = "bool" -> Bool(IF tok.s = "true" THEN "True" ELSE "False")
    [] OTHER          -> Nested(tok.m)

\* whether the format's decoder accepts the token, and the value it builds
lexical(format, tok) ==
  CASE format = "json" -> json_lexical(tok)
    [] format = "yaml" -> yaml_lexical(tok)
    [] format = "toml" -> toml_lexical(tok)

token_value(format, tok) ==
  CASE format = "json" -> json_value(tok)
    [] format = "yaml" -> yaml_value(tok)
    [] format = "toml" -> toml_value(tok)

\* json.load / yaml.safe_load: the decoded top-level value, or a decode
\* error
decode(text, format) ==
  IF \/ text.syntax = "bad"
     \/ \E k \in DOMAIN text.map : ~lexical(format, text.map[k])
  THEN [error |-> TRUE, isdict |-> FALSE, value |-> EmptyMap]
  ELSE [error |-> FALSE, isdict |-> text.root = "mapping",
        value |-> [k \in DOMAIN text.map |-> token_value(format, text.map[k])]]

\* toml.load: a TOML document is always a table; anything else does not decode
toml_decode(text) ==
  IF text.root # "mapping"
  THEN [error |-> TRUE, isdict |-> FALSE, value |-> EmptyMap]
  ELSE decode(text, "toml")

\* the body shared by the three load() methods: the result starts as {}, a
\* decode error is logged and the {} returned, a non-dict raises ValueError
parser_body(d) ==
  IF d.error THEN Returned(EmptyMap)
  ELSE IF d.isdict THEN Returned(d.value)
  ELSE Raised("ValueError")

JSONParser_load(text) == parser_body(decode(text, "json"))
YAMLParser_load(text) == parser_body(decode(text, "yaml"))
TOMLParser_load(text) == parser_body(toml_decode(text))

parser_load(parser, text) ==
  Opened(CASE parser = "JSONParser" -> JSONParser_load(text)
           [] parser = "YAMLParser" -> YAMLParser_load(text)
           [] parser = "TOMLParser" -> TOMLParser_load(text))

----------------------------------------------------------------------------
(* sources.py *)

\* a file source that treats a missing file as an empty configuration
FileConfigSource_load_lenient(parser) ==
  IF ~file.exists THEN [raised |-> "none", value |-> EmptyMap, opened |-> FALSE]
  ELSE parser_load(parser, file.text)

\* FileConfigSource.load: existence is checked here, then the parser reads
FileConfigSource_load(parser) ==
  IF ~file.exists THEN Raised("FileNotFoundError")
  ELSE parser_load(parser, file.text)

\* 'self.prefix is None': the empty prefix counts as configured
prefix_is_none(prefix) == prefix.isNone

\* 'not self.prefix': None and "" are both falsy
prefix_falsy(prefix) == prefix.isNone \/ Len(prefix.s) = 0

\* a scan that keeps the case of the key
RECURSIVE env_scan_keep_case(_, _, _)
env_scan_keep_case(prefix, i, env_config) ==
  IF i > Len(environ) THEN env_config
  ELSE LET key   == environ[i][1]
           value == environ[i][2]
       IN env_scan_keep_case(prefix, i + 1,
            IF startswith(key, prefix.s)
            THEN dict_update(env_config,
                             slice_from(key, Len(prefix.s)) :> Str(value))
            ELSE env_config)

\* the loop of EnvConfigSource.load over os.environ.items(), from the i-th
\* item on: env_config[key[len(prefix):].lower()] = value
RECURSIVE env_scan(_, _, _)
env_scan(prefix, i, env_config) ==
  IF i > Len(environ) THEN env_config
  ELSE LET key   == environ[i][1]
           value == environ[i][2]
       IN env_scan(prefix, i + 1,
            IF startswith(key, prefix.s)
            THEN dict_update(env_config,
                             lower(slice_from(key, Len(prefix.s))) :> Str(value))
            ELSE env_config)

\* EnvConfigSource.load
EnvConfigSource_load(prefix) ==
  IF prefix_falsy(prefix) THEN Returned(EmptyMap)
  ELSE Returned(env_scan(prefix, 1, EmptyMap))

\* a source that keeps only the arguments with a truthy value
CLIConfigSource_load_truthy(args) ==
  IF args.isNone THEN [raised |-> "none", value |-> EmptyMap, opened |-> FALSE]
  ELSE [raised |-> "none", opened |-> FALSE,
        value |-> [k \in {a \in DOMAIN args.ns :
                            args.ns[a] \notin {NoneValue, Bool("False"),
                                               IntV("0"), Str("")}}
                     |-> args.ns[k]]]

\* CLIConfigSource.load
CLIConfigSource_load(args) ==
  IF args.isNone THEN Returned(EmptyMap)
  ELSE Returned([k \in {a \in DOMAIN args.ns : args.ns[a] # NoneValue}
                   |-> args.ns[k]])

\* the test suite's sources
CustomTestSource_load  == Returned(CustomTestConfig)
FailingSource_load     == Raised("Exception")
MutableTestSource_load == Returned(mutable_config)

\* source.load() for one entry of ConfigLoader.sources
source_load(ld, src) ==
  CASE src = "FileConfigSource"  -> FileConfigSource_load(ld.parser)
    [] src = "EnvConfigSource"   -> EnvConfigSource_load(ld.env_prefix)
    [] src = "CLIConfigSource"   -> CLIConfigSource_load(ld.cli_args)
    [] src = "CustomTestSource"  -> CustomTestSource_load
    [] src = "FailingSource"     -> FailingSource_load
    [] src = "MutableTestSource" -> MutableTestSource_load

----------------------------------------------------------------------------
(* The schema of the test suite: TestConfig(BaseModel) *)

\* name: str, version: str, debug: bool = False
TestConfig ==
  (kName    :> [type |-> "str",  required |-> TRUE,  default |-> NoneValue]) @@
  (kVersion :> [type |-> "str",  required |-> TRUE,  default |-> NoneValue]) @@
  (kDebug   :> [type |-> "bool", required |-> FALSE, default |-> Bool("False")])

TrueWords  == {"true", "True", "1", "yes", "on"}
FalseWords == {"false", "False", "0", "no", "off"}

\* pydantic's conversion of one value to a field's type
coerce(type, v) ==
  CASE type = "str" /\ v.t = "str"   -> [ok |-> TRUE, value |-> v]
    [] type = "bool" /\ v.t = "bool" -> [ok |-> TRUE, value |-> v]
    [] type = "bool" /\ v.t = "str" /\ v.s \in TrueWords ->
         [ok |-> TRUE, value |-> Bool("True")]
    [] type = "bool" /\ v.t = "str" /\ v.s \in FalseWords ->
         [ok |-> TRUE, value |-> Bool("False")]
    [] OTHER -> [ok |-> FALSE, value |-> v]

\* config_model(**config): the model instance's fields, or the error list
model_init(schema, config) ==
  LET missing == {f \in DOMAIN schema : f \notin DOMAIN config /\ schema[f].required}
      badtype == {f \in DOMAIN schema : f \in DOMAIN config
                                         /\ ~coerce(schema[f].type, config[f]).ok}
      given   == {f \in DOMAIN schema : f \in DOMAIN config}
  IN [ok     |-> missing = {} /\ badtype = {},
      errors |-> {[loc |-> f, type |-> "missing"] : f \in missing}
                 \cup {[loc |-> f, type |-> "type_error"] : f \in badtype},
      fields |-> [f \in DOMAIN schema |->
                    IF f \in given THEN coerce(schema[f].type, config[f]).value
                    ELSE schema[f].default]]

----------------------------------------------------------------------------
(* core.py *)

NoConfig     == [isNone |-> TRUE,  val |-> EmptyMap]
Config(f)    == [isNone |-> FALSE, val |-> f]

\* a dispatcher that falls back to YAML for an unknown extension
_get_parser_fallback(name) ==
  LET ext == lower(lstrip_dot(suffix(name)))
  IN CASE ext = <<"t","o","m","l">> -> [raised |-> "none", parser |-> "TOMLParser"]
       [] ext = <<"j","s","o","n">> -> [raised |-> "none", parser |-> "JSONParser"]
       [] OTHER -> [raised |-> "none", parser |-> "YAMLParser"]

\* ConfigLoader._get_parser: the parser for the file name's extension, or
\* ConfigParserError (the error raised in the try block is caught by the
\* method's own handler and raised again as ConfigParserError)
_get_parser(name) ==
  LET ext == lower(lstrip_dot(suffix(name)))
  IN CASE ext = <<"t","o","m","l">> -> [raised |-> "none", parser |-> "TOMLParser"]
       [] ext = <<"y","a","m","l">> -> [raised |-> "none", parser |-> "YAMLParser"]
       [] ext = <<"y","m","l">>     -> [raised |-> "none", parser |-> "YAMLParser"]
       [] ext = <<"j","s","o","n">> -> [raised |-> "none", parser |-> "JSONParser"]
       [] OTHER -> [raised |-> "ConfigParserError", parser |-> "none"]

\* a source list with the custom sources put first
_get_sources_custom_first(custom_sources) ==
  custom_sources \o <<"FileConfigSource", "EnvConfigSource", "CLIConfigSource">>

\* ConfigLoader._get_sources: File, Environment, CommandLine, then the
\* custom sources in the order supplied
_get_sources(custom_sources) ==
  <<"FileConfigSource", "EnvConfigSource", "CLIConfigSource">> \o custom_sources

\* a best-effort merge: a source whose load() raises is skipped
RECURSIVE merge_from_best_effort(_, _, _, _, _)
merge_from_best_effort(ld, i, final_config, invoked, opened) ==
  IF i > Len(ld.sources)
  THEN [raised |-> "none", cause |-> "none", final_config |-> final_config,
        invoked |-> invoked, opened |-> opened]
  ELSE LET r == source_load(ld, ld.sources[i])
       IN merge_from_best_effort(ld, i + 1,
            IF r.raised # "none" THEN final_config
            ELSE dict_update(final_config, r.value),
            Append(invoked, ld.sources[i]), opened \/ r.opened)

\* ConfigLoader._load_and_merge_configs, from the i-th source on: the merged
\* mapping, or ConfigSourceError at the first source whose load() raises
RECURSIVE merge_from(_, _, _, _, _)
merge_from(ld, i, final_config, invoked, opened) ==
  IF i > Len(ld.sources)
  THEN [raised |-> "none", cause |-> "none", final_config |-> final_config,
        invoked |-> invoked, opened |-> opened]
  ELSE LET r == source_load(ld, ld.sources[i])
       IN IF r.raised # "none"
          THEN [raised |-> "ConfigSourceError", cause |-> r.raised,
                final_config |-> final_config,
                invoked |-> Append(invoked, ld.sources[i]),
                opened |-> opened \/ r.opened]
          ELSE merge_from(ld, i + 1, dict_update(final_config, r.value),
                          Append(invoked, ld.sources[i]), opened \/ r.opened)

_load_and_merge_configs(ld) == merge_from(ld, 1, EmptyMap, <<>>, FALSE)

\* an exception that keeps one flattened message instead of the list
ConfigValidationError_errors_flat(errors) ==
  {[loc |-> <<>>, type |-> "Configuration validation failed"]}

\* ConfigValidationError.__init__: self.errors = errors or {}
ConfigValidationError_errors(errors) == IF errors = {} THEN {} ELSE errors

\* a validator that runs the model but only logs its ValidationError
_validate_config_log_only(ld, config) ==
  [ran |-> ld.config_model, raised |-> "none", errors |-> {}]

\* ConfigLoader._validate_config: nothing without a model; otherwise the
\* model is instantiated, its instance dropped, and a ValidationError
\* becomes ConfigValidationError carrying e.errors()
_validate_config(ld, config) ==
  IF ~ld.config_model
  THEN [ran |-> FALSE, raised |-> "none", errors |-> {}]
  ELSE LET v == model_init(TestConfig, config)
       IN IF v.ok THEN [ran |-> TRUE, raised |-> "none", errors |-> {}]
          ELSE [ran |-> TRUE, raised |-> "ConfigValidationError",
                errors |-> ConfigValidationError_errors(v.errors)]

\* a cache flag kept on the class: set once any instance has loaded
cache_is_none_shared(ld) == \A l \in DOMAIN loader : loader[l]._config.isNone

\* 'not self._config': an empty cached mapping counts as no cache
cache_is_falsy(ld) == ld._config.isNone \/ ld._config.val = EmptyMap

\* a loader that never finds its cache set
cache_is_none_always(ld) == TRUE

\* 'self._config is None'
cache_is_none(ld) == ld._config.isNone

\* what a call observes; the default is a call that did nothing
Quiet(op, l) ==
  [op |-> op, loader |-> l, raised |-> "none", cause |-> "none",
   returned |-> FALSE, ret |-> EmptyMap, invoked |-> <<>>,
   validated |-> FALSE, opened |-> FALSE, errors |-> {}, prior |-> FALSE,
   retry |-> FALSE, arg |-> NoArgs]

\* storing the model instance's fields over the merged mapping
validated_config_coerced(ld, config) ==
  IF ld.config_model
  THEN dict_update(config, model_init(TestConfig, config).fields)
  ELSE config

\* the mapping load_config stores in self._config once validation passed
validated_config(ld, config) == config

\* ConfigLoader.load_config: [call |-> what the caller observes,
\*                            _config |-> the cache afterwards]
load_config(ld, l) ==
  IF cache_is_none(ld)
  THEN LET m == _load_and_merge_configs(ld)
           seen == [Quiet("load_config", l) EXCEPT
                      !.invoked = m.invoked, !.opened = m.opened]
       IN IF m.raised # "none"
          THEN [call |-> [seen EXCEPT !.raised = m.raised, !.cause = m.cause],
                _config |-> ld._config]
          ELSE LET v == _validate_config(ld, m.final_config)
               IN IF v.raised # "none"
                  THEN [call |-> [seen EXCEPT !.raised = v.raised,
                                              !.validated = v.ran,
                                              !.errors = v.errors],
                        _config |-> ld._config]
                  ELSE LET c == validated_config(ld, m.final_config)
                       IN [call |-> [seen EXCEPT !.validated = v.ran,
                                                 !.returned = TRUE,
                                                 !.ret = c],
                           _config |-> Config(c)]
  ELSE [call |-> [Quiet("load_config", l) EXCEPT
                    !.returned = TRUE, !.ret = ld._config.val],
        _config |-> ld._config]

----------------------------------------------------------------------------
(* The state machine *)

\* the threads that may share one loader
Threads == {"t1", "t2"}

\* a thread outside load_config
Idle ==
  [pc |-> "idle", config |-> EmptyMap, merged |-> FALSE, raised |-> "none",
   returned |-> FALSE, ret |-> EmptyMap]

NoCallers == [t \in Threads |-> Idle]

\* the history of a loader that does not exist yet
NoPast == [failed |-> FALSE, file_at_init |-> FALSE, custom_sources |-> <<>>]

NoLoader ==
  [constructed |-> FALSE, parser |-> "none", env_prefix |-> NoPrefix,
   cli_args |-> NoArgs, config_model |-> FALSE, sources |-> <<>>,
   _config |-> NoConfig]

Init ==
  /\ config_file_name \in FileNames
  /\ file \in FileStates
  /\ environ \in Environs
  /\ mutable_config = MutableInitial
  /\ loader = [l \in Loaders |-> NoLoader]
  /\ first = [l \in Loaders |-> NoConfig]
  /\ past = [l \in Loaders |-> NoPast]
  /\ last = Quiet("start", "-")
  /\ callers = NoCallers

\* ConfigLoader.__init__: the path, the model, the sources (which selects
\* the parser), and an empty cache; no instance when _get_parser raises
Construct(l, env_prefix, cli_args, config_model, custom_sources) ==
  /\ ~loader[l].constructed
  /\ LET p == _get_parser(config_file_name)
     IN IF p.raised # "none"
        THEN /\ last' = [Quiet("__init__", l) EXCEPT !.raised = p.raised]
             /\ UNCHANGED <<loader, past>>
        ELSE /\ loader' = [loader EXCEPT ![l] =
                  [constructed |-> TRUE, parser |-> p.parser,
                   env_prefix |-> env_prefix, cli_args |-> cli_args,
                   config_model |-> config_model,
                   sources |-> _get_sources(custom_sources),
                   _config |-> NoConfig]]
             /\ past' = [past EXCEPT ![l].file_at_init = file.exists,
                                      ![l].custom_sources = custom_sources]
             /\ last' = Quiet("__init__", l)
  /\ UNCHANGED <<world, first, callers>>

\* loader.load_config()
LoadConfig(l) ==
  /\ loader[l].constructed
  /\ LET r == load_config(loader[l], l)
     IN /\ loader' = [loader EXCEPT ![l]._config = r._config]
        /\ last' = [r.call EXCEPT !.prior = ~first[l].isNone,
                                  !.retry = past[l].failed]
        /\ past' = IF r.call.raised # "none"
                   THEN [past EXCEPT ![l].failed = TRUE]
                   ELSE past
        /\ first' = IF r.call.returned /\ first[l].isNone
                    THEN [first EXCEPT ![l] = Config(r.call.ret)]
                    ELSE first
  /\ UNCHANGED <<world, callers>>

\* the configuration file is written (created or replaced)
WriteFile(text) ==
  /\ file # [exists |-> TRUE, text |-> text]
  /\ file' = [exists |-> TRUE, text |-> text]
  /\ last' = Quiet("write_file", "-")
  /\ UNCHANGED <<config_file_name, environ, mutable_config, loader, first, past,
               callers>>

\* the configuration file is removed
RemoveFile ==
  /\ file.exists
  /\ file' = NoFile
  /\ last' = Quiet("remove_file", "-")
  /\ UNCHANGED <<config_file_name, environ, mutable_config, loader, first, past,
               callers>>

\* MutableTestSource.update_config
UpdateConfig(new_config) ==
  /\ mutable_config # new_config
  /\ mutable_config' = new_config
  /\ last' = Quiet("update_config", "-")
  /\ UNCHANGED <<config_file_name, file, environ, loader, first, past, callers>>

Next ==
  \/ \E l \in Loaders, p \in Prefixes, a \in CliArgs, m \in BOOLEAN,
        c \in CustomLists : Construct(l, p, a, m, c)
  \/ \E l \in Loaders : LoadConfig(l)
  \/ \E t \in FileTexts : WriteFile(t)
  \/ RemoveFile
  \/ \E f \in MutableConfigs : UpdateConfig(f)

Spec == Init /\ [][Next]_vars

----------------------------------------------------------------------------
(* The sources on their own: load() of the Environment and CommandLine      *)
(* sources applied to any environment and any arguments                     *)

\* longest environment
MaxEnv == 2

APP_debug == <<"A","P","P","_","d","e","b","u","g">>
APP_      == <<"A","P","P","_">>
SourceEnvNames  == {APP_DEBUG, APP_debug, APP_, HOME}
SourceEnvValues == {"true", "0"}
SourceEnvirons  ==
  {q \in UNION {[1..n -> SourceEnvNames \X SourceEnvValues] : n \in 0..MaxEnv} :
     \A i, j \in 1..Len(q) : q[i][1] = q[j][1] => i = j}
SourcePrefixes  == Prefixes \cup {Prefix(<<"A","P","P","_","D">>)}

SourceArgNames  == {kDebug, kPort, kName}
SourceArgValues == {NoneValue, Bool("False"), IntV("0"), Str(""), Str("x")}
SourceCliArgs   ==
  {NoArgs} \cup {Namespace(f) :
                   f \in UNION {[N -> SourceArgValues] : N \in SUBSET SourceArgNames}}

InitSources ==
  /\ config_file_name = <<"c",".","y","a","m","l">>
  /\ file = NoFile
  /\ environ \in SourceEnvirons
  /\ mutable_config = MutableInitial
  /\ loader = [l \in Loaders |-> NoLoader]
  /\ first = [l \in Loaders |-> NoConfig]
  /\ past = [l \in Loaders |-> NoPast]
  /\ last = Quiet("start", "-")
  /\ callers = NoCallers

\* EnvConfigSource(prefix).load()
EnvLoad(prefix) ==
  /\ last' = [Quiet("EnvConfigSource.load", "-") EXCEPT
                !.returned = TRUE,
                !.ret = EnvConfigSource_load(prefix).value,
                !.arg = prefix]
  /\ UNCHANGED <<world, loader, first, past, callers>>

\* CLIConfigSource(args).load()
CliLoad(args) ==
  /\ last' = [Quiet("CLIConfigSource.load", "-") EXCEPT
                !.returned = TRUE,
                !.ret = CLIConfigSource_load(args).value,
                !.arg = args]
  /\ UNCHANGED <<world, loader, first, past, callers>>

NextSources ==
  \/ \E p \in SourcePrefixes : EnvLoad(p)
  \/ \E a \in SourceCliArgs : CliLoad(a)

SpecSources == InitSources /\ [][NextSources]_vars

----------------------------------------------------------------------------
(* Two loaders over the same sources, as in test_caching_mechanism and      *)
(* test_cache_invalidation                                                  *)

TwoLoaders == {"A", "B"}
TwoFileTexts == {TextOf(FileFull), TextOf(EmptyMap)}
TwoCustomLists == {<<>>, <<"MutableTestSource">>}

InitTwo ==
  /\ config_file_name = <<"c",".","y","a","m","l">>
  /\ file \in {[exists |-> TRUE, text |-> x] : x \in TwoFileTexts}
  /\ environ = <<>>
  /\ mutable_config = MutableInitial
  /\ loader = [l \in TwoLoaders |-> NoLoader]
  /\ first = [l \in TwoLoaders |-> NoConfig]
  /\ past = [l \in TwoLoaders |-> NoPast]
  /\ last = Quiet("start", "-")
  /\ callers = NoCallers

NextTwo ==
  \/ \E l \in TwoLoaders, m \in BOOLEAN, c \in TwoCustomLists :
        Construct(l, NoPrefix, NoArgs, m, c)
  \/ \E l \in TwoLoaders : LoadConfig(l)
  \/ \E t \in TwoFileTexts : WriteFile(t)
  \/ \E f \in MutableConfigs : UpdateConfig(f)

SpecTwo == InitTwo /\ [][NextTwo]_vars

----------------------------------------------------------------------------
(* One loader shared by several threads: load_config taken statement by     *)
(* statement, a thread switch being possible between any two of them        *)

\* the instance the threads share
Shared == "A"

InitShared ==
  /\ config_file_name = <<"c",".","y","a","m","l">>
  /\ file \in {[exists |-> TRUE, text |-> x] : x \in TwoFileTexts}
  /\ environ = <<>>
  /\ mutable_config = MutableInitial
  /\ loader = [l \in Loaders |-> NoLoader]
  /\ first = [l \in Loaders |-> NoConfig]
  /\ past = [l \in Loaders |-> NoPast]
  /\ last = Quiet("start", "-")
  /\ callers = NoCallers

\* 'if self._config is None:'
load_config_check(t) ==
  /\ loader[Shared].constructed
  /\ callers[t].pc = "idle"
  /\ callers' = [callers EXCEPT ![t].pc =
        IF cache_is_none(loader[Shared]) THEN "merge" ELSE "return"]
  /\ UNCHANGED <<world, loader, first, past, last>>

\* 'config = self._load_and_merge_configs()'
load_config_merge(t) ==
  /\ callers[t].pc = "merge"
  /\ LET m == _load_and_merge_configs(loader[Shared])
     IN callers' = [callers EXCEPT ![t] =
          IF m.raised # "none"
          THEN [@ EXCEPT !.pc = "done", !.merged = TRUE, !.raised = m.raised]
          ELSE [@ EXCEPT !.pc = "validate", !.merged = TRUE,
                         !.config = m.final_config]]
  /\ UNCHANGED <<world, loader, first, past, last>>

\* 'self._validate_config(config)'
load_config_validate(t) ==
  /\ callers[t].pc = "validate"
  /\ LET v == _validate_config(loader[Shared], callers[t].config)
     IN callers' = [callers EXCEPT ![t] =
          IF v.raised # "none"
          THEN [@ EXCEPT !.pc = "done", !.raised = v.raised]
          ELSE [@ EXCEPT !.pc = "store"]]
  /\ UNCHANGED <<world, loader, first, past, last>>

\* 'self._config = config'
load_config_store(t) ==
  /\ callers[t].pc = "store"
  /\ loader' = [loader EXCEPT ![Shared]._config =
        Config(validated_config(loader[Shared], callers[t].config))]
  /\ callers' = [callers EXCEPT ![t].pc = "return"]
  /\ UNCHANGED <<world, first, past, last>>

\* 'return self._config'
load_config_return(t) ==
  /\ callers[t].pc = "return"
  /\ callers' = [callers EXCEPT ![t] =
        [@ EXCEPT !.pc = "done", !.returned = TRUE,
                  !.ret = loader[Shared]._config.val]]
  /\ UNCHANGED <<world, loader, first, past, last>>

NextShared ==
  \/ \E m \in BOOLEAN, c \in TwoCustomLists :
        Construct(Shared, NoPrefix, NoArgs, m, c)
  \/ \E t \in Threads : load_config_check(t)
  \/ \E t \in Threads : load_config_merge(t)
  \/ \E t \in Threads : load_config_validate(t)
  \/ \E t \in Threads : load_config_store(t)
  \/ \E t \in Threads : load_config_return(t)
  \/ \E f \in MutableConfigs : UpdateConfig(f)

SpecShared == InitShared /\ [][NextShared]_vars

----------------------------------------------------------------------------
(* A mapping written with json.dump, yaml.dump or toml.dump and loaded by   *)
(* a loader that has only the file, as in test_load_yaml_config,            *)
(* test_load_json_config and test_load_toml_config                          *)

\* the token each dump writes for a value; JSON and TOML quote every string
\* and write a boolean as true or false
json_token(v) ==
  CASE v.t = "str"  -> Str(v.s)
    [] v.t = "int"  -> IntV(v.s)
    [] v.t = "bool" -> Bool(IF v.s = "True" THEN "true" ELSE "false")
    [] v.t = "map"  -> Nested(v.m)
    [] OTHER        -> NoneValue

\* yaml.dump leaves a string unquoted unless it would then be read as
\* something else
yaml_token(v) ==
  CASE v.t = "str"  -> IF yaml_resolve(v.s).t = "str" THEN Plain(v.s)
                       ELSE Str(v.s)
    [] v.t = "int"  -> Plain(v.s)
    [] v.t = "bool" -> Plain(IF v.s = "True" THEN "true" ELSE "false")
    [] v.t = "map"  -> Nested(v.m)
    [] OTHER        -> Plain("null")

toml_token(v) ==
  CASE v.t = "str"  -> Str(v.s)
    [] v.t = "int"  -> IntV(v.s)
    [] v.t = "bool" -> Bool(IF v.s = "True" THEN "true" ELSE "false")
    [] OTHER        -> Nested(v.m)

\* the file text the dump of the parser's format writes for the mapping M
dump(parser, M) ==
  TextOf([k \in DOMAIN M |->
            CASE parser = "JSONParser" -> json_token(M[k])
              [] parser = "YAMLParser" -> yaml_token(M[k])
              [] parser = "TOMLParser" -> toml_token(M[k])])

RoundTripKeys == {kName, kDebug}
RoundTripValues ==
  { Str("x"), Str("true"), Str("5432"), Str(""), IntV("5432"),
    Bool("True"), Bool("False"), Nested(EmptyMap),
    Nested((kHost :> "localhost") @@ (kPort :> "5432")) }
RoundTripMaps == UNION {[K -> RoundTripValues] : K \in SUBSET RoundTripKeys}

InitRoundTrip ==
  /\ config_file_name \in FileNames \ UnsupportedNames
  /\ file = NoFile
  /\ environ \in Environs
  /\ mutable_config = MutableInitial
  /\ loader = [l \in Loaders |-> NoLoader]
  /\ first = [l \in Loaders |-> NoConfig]
  /\ past = [l \in Loaders |-> NoPast]
  /\ last = Quiet("start", "-")
  /\ callers = NoCallers

\* the mapping is dumped to a new file in the format of its extension
WriteDump(M) ==
  /\ ~file.exists
  /\ file' = [exists |-> TRUE,
              text |-> dump(_get_parser(config_file_name).parser, M)]
  /\ last' = Quiet("dump", "-")
  /\ UNCHANGED <<config_file_name, environ, mutable_config, loader, first, past,
                 callers>>

NextRoundTrip ==
  \/ \E l \in Loaders : Construct(l, NoPrefix, NoArgs, FALSE, <<>>)
  \/ \E l \in Loaders : LoadConfig(l)
  \/ \E M \in RoundTripMaps : WriteDump(M)

SpecRoundTrip == InitRoundTrip /\ [][NextRoundTrip]_vars

----------------------------------------------------------------------------
(* Properties *)

\* the loader the latest call was made on
Called == loader[last.loader]

\* the latest operation is a load_config call that found no earlier
\* successful load on its loader
FirstLoad == last.op = "load_config" /\ ~last.prior

\* what the i-th source of the called loader produces in this state (a
\* call changes nothing its sources read, so this is what the call saw)
Out(i) == source_load(Called, Called.sources[i])

\* the mapping in which every key carries the value of the last of the
\* sources with an index in I that has the key
LastWins(I) ==
  [k \in UNION {DOMAIN Out(i).value : i \in I} |->
     Out(CHOOSE i \in I : /\ k \in DOMAIN Out(i).value
                          /\ \A h \in I : h > i => k \notin DOMAIN Out(h).value
        ).value[k]]

AllSources == 1..Len(Called.sources)

\* C1: once load_config has succeeded on a loader, every later load_config
\* on it returns the first result, asks no source and validates nothing,
\* whatever the sources would produce now.
C1_CacheIsFinal ==
  (last.op = "load_config" /\ last.prior) =>
    /\ last.raised = "none"
    /\ last.returned
    /\ last.ret = first[last.loader].val
    /\ last.invoked = <<>>
    /\ ~last.opened
    /\ ~last.validated

\* a cached answer was given although the sources now merge to another mapping
C1_Witness ==
  /\ last.op = "load_config" /\ last.prior /\ last.returned
  /\ "MutableTestSource" \in {Called.sources[i] : i \in AllSources}
  /\ \A i \in AllSources : Out(i).raised = "none"
  /\ LastWins(AllSources) # last.ret

\* C2: the first successful load_config returns the union of the sources'
\* keys, each with the value of the last source in list order that has it;
\* the list is File, Environment, CommandLine, then the custom sources, and
\* a nested mapping is replaced whole, never merged entry by entry.
C2_LastSourceWins ==
  (FirstLoad /\ last.returned) =>
    /\ SubSeq(Called.sources, 1, 3)
         = <<"FileConfigSource", "EnvConfigSource", "CLIConfigSource">>
    /\ \A i \in 4..Len(Called.sources) : Called.sources[i] \in CustomClasses
    /\ DOMAIN last.ret = UNION {DOMAIN Out(i).value : i \in AllSources}
    /\ last.ret = LastWins(AllSources)

\* the file's nested database mapping was replaced by the custom source's
C2_Witness ==
  /\ FirstLoad /\ last.returned
  /\ kDatabase \in DOMAIN Out(1).value
  /\ Out(1).value[kDatabase] = Nested((kHost :> "localhost") @@ (kPort :> "5432"))
  /\ last.ret[kDatabase] = Nested((kHost :> "remote"))
  /\ last.ret[kName] = Str("updated_app")

\* C3: when the k-th source raises, load_config fails with
\* ConfigSourceError, no later source is asked, nothing is returned and the
\* cache stays unset; a later call starts over with the first source and
\* returns the merge of all the sources, not a continuation.
C3_SourceFailureAborts ==
  /\ (FirstLoad /\ \E k \in AllSources : Out(k).raised # "none") =>
       LET k == CHOOSE j \in AllSources :
                  Out(j).raised # "none" /\ \A h \in 1..(j - 1) : Out(h).raised = "none"
       IN /\ last.raised = "ConfigSourceError"
          /\ issubclass(last.raised, "ConfigSourceError")
          /\ last.cause = Out(k).raised
          /\ last.invoked = SubSeq(Called.sources, 1, k)
          /\ ~last.returned /\ last.ret = EmptyMap
          /\ Called._config.isNone
          /\ first[last.loader].isNone
  /\ (last.op = "load_config" /\ last.raised = "ConfigSourceError") =>
       \E k \in AllSources : Out(k).raised # "none"
  /\ (FirstLoad /\ last.retry /\ last.returned) =>
       /\ last.invoked = Called.sources
       /\ last.ret = LastWins(AllSources)

\* a custom source failed after the file had given entries, with a source
\* still to come
C3_Witness ==
  /\ last.op = "load_config" /\ last.raised = "ConfigSourceError"
  /\ last.cause = "Exception"
  /\ Len(last.invoked) = 4 /\ Len(Called.sources) = 5
  /\ Out(1).value # EmptyMap
  /\ Called._config.isNone

\* C4: with a schema, a merged mapping that fails validation makes
\* load_config fail with ConfigValidationError and leaves the cache unset;
\* a set cache of a loader with a schema always holds a mapping that
\* passes validation.
C4_CacheOnlyAfterValidation ==
  /\ \A l \in Loaders :
       (loader[l].constructed /\ loader[l].config_model
          /\ ~loader[l]._config.isNone) =>
         model_init(TestConfig, loader[l]._config.val).ok
  /\ (FirstLoad /\ Called.config_model
        /\ (\A i \in AllSources : Out(i).raised = "none")
        /\ ~model_init(TestConfig, LastWins(AllSources)).ok) =>
       /\ last.raised = "ConfigValidationError"
       /\ last.validated
       /\ ~last.returned
       /\ Called._config.isNone
  /\ (last.op = "load_config" /\ last.raised = "ConfigValidationError") =>
       /\ Called.config_model /\ Called._config.isNone

\* validation rejected a merge that lacks the required fields
C4_Witness ==
  /\ last.op = "load_config" /\ last.raised = "ConfigValidationError"
  /\ [loc |-> kVersion, type |-> "missing"] \in last.errors
  /\ Called._config.isNone

\* the merge the caller of the latest first load is owed, when no source raised
Merged == LastWins(AllSources)

\* C5 as stated: with a schema and a successful validation, load_config returns
\* and caches the validator's coerced mapping: every schema field is present
\* with the value coerced to the declared type, or its default when omitted.
C5_ReturnsCoerced ==
  (FirstLoad /\ last.returned /\ Called.config_model) =>
    LET v == model_init(TestConfig, Merged)
    IN \A f \in DOMAIN TestConfig :
         /\ f \in DOMAIN last.ret
         /\ last.ret[f] = v.fields[f]
         /\ Called._config.val[f] = v.fields[f]

\* C5, amended: with a schema and a successful validation, load_config
\* returns and caches the merged mapping itself; the validator's coerced
\* result is dropped, so values keep the types their sources gave them and
\* omitted optional fields stay absent.
C5_ReturnsMergedUnchanged ==
  (FirstLoad /\ last.returned /\ Called.config_model) =>
    /\ last.validated
    /\ model_init(TestConfig, Merged).ok
    /\ last.ret = Merged
    /\ Called._config = Config(Merged)

\* validation passed on a debug value that came from the environment as a
\* string, and the string is what was returned
C5_Witness ==
  /\ FirstLoad /\ last.returned /\ Called.config_model
  /\ kDebug \in DOMAIN last.ret
  /\ last.ret[kDebug] = Str("true")
  /\ model_init(TestConfig, Merged).fields[kDebug] = Bool("True")

\* C6: constructing a loader for a file name with an unsupported extension
\* fails with ConfigParserError in the constructor, before any source is
\* asked or the file opened; no loader for such a name exists, so none
\* reaches load_config.  Extensions are compared without regard to case.
C6_BadExtensionFailsAtInit ==
  /\ (last.op = "__init__" /\ config_file_name \in UnsupportedNames) =>
       /\ last.raised = "ConfigParserError"
       /\ last.invoked = <<>>
       /\ ~last.opened
  /\ (last.op = "__init__" /\ config_file_name \notin UnsupportedNames) =>
       last.raised = "none"
  /\ \A l \in Loaders :
       loader[l].constructed => config_file_name \notin UnsupportedNames
  /\ last.op = "load_config" => config_file_name \notin UnsupportedNames

\* the constructor refused config.xyz although the file is there
C6_Witness ==
  /\ last.op = "__init__" /\ last.raised = "ConfigParserError"
  /\ config_file_name = <<"c",".","x","y","z">>
  /\ file.exists
  /\ ~loader[last.loader].constructed

\* C7: for an existing file with an unsupported extension (config.xyz),
\* construction followed by load_config raises an error that is a
\* ConfigFileError.
C7_BadExtensionIsFileError ==
  (last.op \in {"__init__", "load_config"}
     /\ config_file_name = <<"c",".","x","y","z">> /\ file.exists) =>
    /\ last.raised # "none"
    /\ issubclass(last.raised, "ConfigFileError")

\* the file the latest load read is not a well-formed mapping
FileIsMalformed ==
  file.exists /\ (file.text.syntax = "bad" \/ file.text.root # "mapping")

\* C8: a parser's load() on a file that is malformed, or whose top-level
\* value is not a mapping, raises ConfigParserError and returns no mapping;
\* load_config on such a file never succeeds and never sets the cache.
C8_ParserSignalsDecodeError ==
  (FirstLoad /\ FileIsMalformed) =>
    /\ parser_load(Called.parser, file.text).raised = "ConfigParserError"
    /\ ~last.returned
    /\ last.raised # "none"
    /\ Called._config.isNone

C10_NoPrefixNoEnvironment ==
  /\ \A l \in Loaders :
       (loader[l].constructed
          /\ loader[l].env_prefix \in {NoPrefix, Prefix(<<>>)}) =>
         source_load(loader[l], "EnvConfigSource") = Returned(EmptyMap)
  /\ (FirstLoad /\ last.returned
        /\ Called.env_prefix \in {NoPrefix, Prefix(<<>>)}) =>
       last.ret = LastWins(AllSources \ {2})

\* a load with the prefix "" while the environment holds variables
C10_Witness ==
  /\ FirstLoad /\ last.returned
  /\ Called.env_prefix = Prefix(<<>>)
  /\ {environ[i][1] : i \in 1..Len(environ)} = EnvNames
  /\ last.invoked[2] = "EnvConfigSource"

\* the environment items the latest Environment load selected, and the key
\* each one is stored under
EnvHits   == {i \in 1..Len(environ) : startswith(environ[i][1], last.arg.s)}
EnvKey(i) == lower(slice_from(environ[i][1], Len(last.arg.s)))
EnvLoaded ==
  last.op = "EnvConfigSource.load" /\ ~last.arg.isNone /\ Len(last.arg.s) > 0

\* C11 as stated: with a non-empty prefix the Environment source's mapping
\* has an entry for exactly the variables whose name starts with the prefix:
\* one entry per such variable, its key the rest of the name lower-cased,
\* its value that variable's raw string; other variables give nothing.
C11_EntryPerVariable ==
  EnvLoaded =>
    /\ DOMAIN last.ret = {EnvKey(i) : i \in EnvHits}
    /\ Cardinality(DOMAIN last.ret) = Cardinality(EnvHits)
    /\ \A i \in EnvHits : last.ret[EnvKey(i)] = Str(environ[i][2])

\* C11, amended: the keys are the lower-cased remainders of the names that
\* start with the prefix; each key carries, as an uncoerced string, the raw
\* value of the last such variable in the environment's iteration order
\* whose remainder lower-cases to that key (names that differ only in case
\* share one entry); other variables give nothing.
C11_LastVariablePerKey ==
  EnvLoaded =>
    /\ DOMAIN last.ret = {EnvKey(i) : i \in EnvHits}
    /\ \A k \in DOMAIN last.ret :
         LET i == CHOOSE h \in EnvHits :
                    /\ EnvKey(h) = k
                    /\ \A g \in EnvHits : g > h => EnvKey(g) # k
         IN last.ret[k] = Str(environ[i][2])
    /\ \A i \in 1..Len(environ) :
         i \notin EnvHits =>
           (Len(environ[i][1]) < Len(last.arg.s)
              \/ SubSeq(environ[i][1], 1, Len(last.arg.s)) # last.arg.s)

\* APP_DEBUG and APP_debug are both set: one entry "debug", the later value
C11_Witness ==
  /\ EnvLoaded /\ last.arg.s = APP_
  /\ environ = <<<<APP_DEBUG, "true">>, <<APP_debug, "0">>>>
  /\ last.ret = (kDebug :> Str("0"))

\* C12: the CommandLine source gives exactly the arguments whose value is
\* not None, so False, 0 and "" are kept; without an arguments object it
\* gives the empty mapping.
C12_OnlyNoneIsAbsent ==
  last.op = "CLIConfigSource.load" =>
    IF last.arg.isNone THEN last.ret = EmptyMap
    ELSE /\ DOMAIN last.ret = {a \in DOMAIN last.arg.ns : last.arg.ns[a] # NoneValue}
         /\ \A a \in DOMAIN last.ret : last.ret[a] = last.arg.ns[a]
         /\ \A a \in DOMAIN last.arg.ns :
              last.arg.ns[a] \in {Bool("False"), IntV("0"), Str("")} =>
                (a \in DOMAIN last.ret /\ last.ret[a] = last.arg.ns[a])

\* debug=False and port=0 were kept, name=None was left out
C12_Witness ==
  /\ last.op = "CLIConfigSource.load"
  /\ last.arg = Namespace((kDebug :> Bool("False")) @@ (kPort :> IntV("0"))
                           @@ (kName :> NoneValue))
  /\ last.ret = (kDebug :> Bool("False")) @@ (kPort :> IntV("0"))

\* the schema's required fields
RequiredFields == {f \in DOMAIN TestConfig : TestConfig[f].required}

\* C13: when the merged mapping lacks a field the schema requires,
\* load_config fails with ConfigValidationError whose errors attribute is
\* the validator's whole list of per-field errors, with an entry for each
\* missing field.
C13_ErrorsNameMissingFields ==
  (FirstLoad /\ Called.config_model
     /\ (\A i \in AllSources : Out(i).raised = "none")
     /\ (\E f \in RequiredFields : f \notin DOMAIN Merged)) =>
    /\ last.raised = "ConfigValidationError"
    /\ last.errors = model_init(TestConfig, Merged).errors
    /\ \A f \in RequiredFields :
         f \notin DOMAIN Merged =>
           \E e \in last.errors : e.loc = f /\ e.type = "missing"
    /\ \A e \in last.errors : e.loc \in DOMAIN TestConfig

\* name and version were both missing and both are reported
C13_Witness ==
  /\ last.op = "load_config" /\ last.raised = "ConfigValidationError"
  /\ Merged = EmptyMap
  /\ last.errors = {[loc |-> kName, type |-> "missing"],
                    [loc |-> kVersion, type |-> "missing"]}

\* C17: a first load_config in which no source fails asks every source
\* exactly once, in the order File, Environment, CommandLine, then the
\* custom sources as they were given to the constructor; the constructor
\* asks no source.
C17_SourcesAskedInOrder ==
  /\ (FirstLoad /\ \A i \in AllSources : Out(i).raised = "none") =>
       last.invoked = <<"FileConfigSource", "EnvConfigSource", "CLIConfigSource">>
                        \o past[last.loader].custom_sources
  /\ last.op = "__init__" => (last.invoked = <<>> /\ ~last.opened)

\* two custom sources were asked last, in the order they were given
C17_Witness ==
  /\ FirstLoad /\ last.returned
  /\ past[last.loader].custom_sources = <<"MutableTestSource", "CustomTestSource">>
  /\ last.invoked = <<"FileConfigSource", "EnvConfigSource", "CLIConfigSource",
                      "MutableTestSource", "CustomTestSource">>

\* C18: an empty mapping is a cached result like any other: once the first
\* successful load_config gave the empty mapping, the cache is set to it
\* and every later load_config returns it without asking a source.
C18_EmptyResultIsCached ==
  /\ (FirstLoad /\ last.returned /\ last.ret = EmptyMap) =>
       Called._config = Config(EmptyMap)
  /\ \A l \in Loaders :
       (~first[l].isNone /\ first[l].val = EmptyMap) =>
         (~loader[l]._config.isNone /\ loader[l]._config.val = EmptyMap)
  /\ (last.op = "load_config" /\ last.prior
        /\ first[last.loader].val = EmptyMap) =>
       /\ last.returned /\ last.ret = EmptyMap
       /\ last.raised = "none"
       /\ last.invoked = <<>>
       /\ ~last.opened

\* the empty mapping was returned from the cache although the sources now
\* give entries
C18_Witness ==
  /\ last.op = "load_config" /\ last.prior /\ last.returned
  /\ last.ret = EmptyMap
  /\ \A i \in AllSources : Out(i).raised = "none"
  /\ Merged # EmptyMap

\* C14: the cache belongs to one instance.  Every loader's cache is exactly
\* that loader's own first result (no load on another instance sets or
\* changes it); a loader's first load returns what the sources hold now,
\* whatever another loader has cached; a loader that has loaded keeps
\* returning its own first result.
C14_CachePerInstance ==
  /\ \A l \in DOMAIN loader : loader[l]._config = first[l]
  /\ (FirstLoad /\ last.returned) =>
       /\ last.invoked = Called.sources
       /\ last.ret = Merged
  /\ (last.op = "load_config" /\ last.prior) =>
       /\ last.returned /\ last.ret = first[last.loader].val
       /\ last.invoked = <<>>
  /\ last.op = "load_config" =>
       \A o \in DOMAIN loader :
         (o # last.loader /\ first[o].isNone) => loader[o]._config.isNone

\* A holds the first data; B, built over the same sources after the update,
\* has just loaded the new data
C14_Witness ==
  /\ FirstLoad /\ last.returned /\ last.loader = "B"
  /\ loader["A"].sources = loader["B"].sources
  /\ "MutableTestSource" \in {loader["B"].sources[i] : i \in AllSources}
  /\ kName \in DOMAIN loader["A"]._config.val
  /\ loader["A"]._config.val[kName] = Str("mutable_app")
  /\ kName \in DOMAIN last.ret
  /\ last.ret[kName] = Str("updated_app")
  /\ loader["B"]._config.val = last.ret

\* C15 as stated: when threads share one loader and no call fails, at most
\* one of them runs the merge over the sources, and all that have returned
\* got the same value.
C15_PopulationSerialized ==
  (\A t \in Threads : callers[t].raised = "none") =>
    /\ Cardinality({t \in Threads : callers[t].merged}) <= 1
    /\ \A t, u \in Threads :
         (callers[t].returned /\ callers[u].returned) =>
           callers[t].ret = callers[u].ret

\* C16: a mapping of string, integer, boolean and nested-mapping values,
\* dumped to a file in the format of the file's extension and loaded by a
\* loader with no prefix, no arguments, no custom source and no schema,
\* comes back from load_config exactly, and is what the loader caches.
C16_RoundTrip ==
  ( /\ FirstLoad /\ file.exists
    /\ Called.env_prefix = NoPrefix /\ Called.cli_args = NoArgs
    /\ ~Called.config_model /\ past[last.loader].custom_sources = <<>> ) =>
    \A M \in RoundTripMaps :
      file.text = dump(Called.parser, M) =>
        /\ last.returned
        /\ last.ret = M
        /\ Called._config = Config(M)

\* a YAML file holding the string "true", the boolean True and the integer
\* 5432 somewhere has been loaded back
C16_Witness ==
  /\ FirstLoad /\ last.returned /\ file.exists
  /\ Called.parser = "YAMLParser"
  /\ Called.env_prefix = NoPrefix /\ Called.cli_args = NoArgs
  /\ ~Called.config_model /\ past[last.loader].custom_sources = <<>>
  /\ file.text = dump("YAMLParser",
                      (kName :> Str("true")) @@ (kDebug :> Bool("True")))
  /\ last.ret = (kName :> Str("true")) @@ (kDebug :> Bool("True"))

====
